---- MODULE Spec2Model ----
(***************************************************************************)
(* halopy: the client-side rate limiter (token bucket) and the request     *)
(* dispatcher of class HaloPy, src/halopy/__init__.py.                      *)
(*                                                                         *)
(* Token counts are Python floats. Every period of the model is 1 or 2, so *)
(* every count is a multiple of 0.5 and the float arithmetic is exact; the *)
(* model counts tokens in halves: One (= 2 halves) is the literal 1.0.     *)
(***************************************************************************)
EXTENDS Integers, Sequences, FiniteSets, TLC

VARIABLES
    clock,       \* round(time.time()), what _now() returns
    rate,        \* rate[c]: the client's _rate
    allowance,   \* allowance[c]: the client's _allowance, in halves
    last_check,  \* last_check[c]: the client's _last_check
    defaults,    \* defaults[e]: the header in the shared default dict of e
    pc,          \* pc[t]: where thread t stands inside request()
    call,        \* call[t]: the call thread t is in, or made last
    hist         \* what has happened so far (read by the properties only)

vars == <<clock, rate, allowance, last_check, defaults, pc, call, hist>>

----------------------------------------------------------------------------
(* Bounds of the model *)

MaxTime == 3
MaxCap == 2

(* 1.0 token, in halves *)
One == 2

Periods == {1, 2}

Clients == DOMAIN allowance
Threads == DOMAIN pc

----------------------------------------------------------------------------
(* Values a caller can assign to HaloPy.rate *)

Pair(req, sec) == [kind |-> "tuple", numeric |-> TRUE, elems |-> <<req, sec>>]

ValidPairs == {Pair(q, s) : q \in 1..MaxCap, s \in Periods}

\* '1,1' ; [1, 2] ; (1, 2, 1) ; ('1', '1')
StrValue == [kind |-> "str", numeric |-> FALSE, elems |-> <<>>]
ListValue == [kind |-> "list", numeric |-> TRUE, elems |-> <<1, 2>>]
LongTuple == [kind |-> "tuple", numeric |-> TRUE, elems |-> <<1, 2, 1>>]
TextTuple == [kind |-> "tuple", numeric |-> FALSE, elems |-> <<1, 1>>]

RateValues == ValidPairs \cup {StrValue, ListValue, LongTuple, TextTuple}

\* a two-element numeric pair
IsPair(v) == v.kind = "tuple" /\ v.numeric /\ Len(v.elems) = 2

\* rate[0] / rate[1] evaluates: both elements exist and are numbers
Divides(v) == v.numeric /\ Len(v.elems) >= 2

Cap(v) == v.elems[1] * One
PerSecond(v) == (v.elems[1] * One) \div v.elems[2]

----------------------------------------------------------------------------
(* The limiter *)

\* faulty variant: the cap of line 115 forgotten
RefillNoCap(a, v, time_passed) == a + time_passed * PerSecond(v)

\* _pre_request, lines 113-117: the value it returns
Refill(a, v, time_passed) ==
    LET x == a + time_passed * PerSecond(v)
    IN  IF x > Cap(v) THEN Cap(v) ELSE x

\* faulty variant: the gate opens for an empty bucket
AdmitsEmpty(a) == a >= 0

\* can_request, lines 129-131
Admits(a) == a >= One

\* faulty variant: the cache is not looked at
ConsumeAlways(a, from_cache) == a - One

\* request, lines 173-175
Consume(a, from_cache) == IF from_cache THEN a ELSE a - One

----------------------------------------------------------------------------
(* The dispatcher *)

Entries == {"request", "meta_request", "profile_request", "stats_request"}

\* the headers argument: left out (the function's one default dict is used),
\* a dict that holds the key header already, a new dict that does not
HeaderArgs == {"default", "own", "fresh"}

NoKey == "absent"
CallerKey == "caller-key"
KeyOf == <<"api-key-1", "api-key-2">>
ApiKey(c) == KeyOf[c]

Err400 == "Bad request"
Err401 == "Unauthorized"
Err404 == "Endpoint not found"
Err429 == "Rate limit exceeded"
Err500 == "Internal server error"

StatusCodes == {100, 200, 301, 400, 401, 404, 429, 500, 503}

\* what requests.get gives back: a response, or an exception of the transport
Responses ==
    [failed : {FALSE}, from_cache : BOOLEAN, status_code : StatusCodes]
    \cup {[failed |-> TRUE, from_cache |-> FALSE, status_code |-> 0]}

\* Response.raise_for_status() of the requests library: HTTPError for a
\* client error (4xx) or a server error (5xx), nothing otherwise
RaiseForStatus(status_code) ==
    IF 400 <= status_code /\ status_code < 600 THEN "HTTPError" ELSE "returned"

\* faulty variant: the branch for 404 is missing
ClassifyNo404(status_code) ==
    CASE status_code = 400 -> Err400
      [] status_code = 401 -> Err401
      [] status_code = 429 -> Err429
      [] status_code = 500 -> Err500
      [] OTHER -> RaiseForStatus(status_code)

\* request, lines 177-189
Classify(status_code) ==
    CASE status_code = 400 -> Err400
      [] status_code = 401 -> Err401
      [] status_code = 404 -> Err404
      [] status_code = 429 -> Err429
      [] status_code = 500 -> Err500
      [] OTHER -> RaiseForStatus(status_code)

\* faulty variant: the token is taken only when the status code raises nothing
AfterGetOnSuccess(a, resp) ==
    IF resp.failed \/ Classify(resp.status_code) # "returned"
    THEN a ELSE Consume(a, resp.from_cache)

\* request, lines 168-175: _allowance once requests.get has returned resp or
\* raised; an exception leaves line 168 and lines 173-175 are not run
AfterGet(a, resp) == IF resp.failed THEN a ELSE Consume(a, resp.from_cache)

\* request, lines 165-166, on the dict that headers is bound to
HeaderSent(c, e, h) ==
    CASE h = "own" -> CallerKey
      [] h = "fresh" -> ApiKey(c)
      [] OTHER -> IF defaults[e] = NoKey THEN ApiKey(c) ELSE defaults[e]

DefaultsAfter(c, e, h) ==
    IF h = "default" /\ defaults[e] = NoKey
    THEN [defaults EXCEPT ![e] = ApiKey(c)]
    ELSE defaults

----------------------------------------------------------------------------
(* History, per client: read by the properties, never by the program.      *)
(*   mutated      _allowance was assigned from outside                      *)
(*   reconf       the rate setter accepted a value                          *)
(*   started      request() calls begun so far (2 stands for 2 or more)     *)
(*   paced        every request() so far began at least period/capacity     *)
(*                seconds after the request() before it ended               *)
(*   lastCallEnd  clock when the last can_request()/request() ended, or -1  *)
(*   lastReqEnd   clock when the last request() ended, or -1                *)
(*   burst        responses not from the cache received in this clock       *)
(*                second by requests admitted in this clock second          *)
(*   issued       requests.get calls that returned a response not from the  *)
(*                cache                                                      *)
(*   thrown       requests.get calls that raised (1 stands for 1 or more)   *)
(*   overlap      a request() began while another thread was inside         *)
(*                request() on this client                                  *)

NoHist ==
    [mutated |-> FALSE, reconf |-> FALSE, started |-> 0, paced |-> TRUE,
     lastCallEnd |-> -1, lastReqEnd |-> -1, burst |-> 0,
     issued |-> 0, thrown |-> 0, overlap |-> FALSE]

\* once the rate was changed or _allowance assigned, no property reads the
\* timing history any more: it is kept at its initial value
Kept(h) ==
    IF h.mutated \/ h.reconf
    THEN [h EXCEPT !.paced = TRUE, !.lastCallEnd = -1, !.lastReqEnd = -1,
                   !.burst = 0, !.issued = 0, !.thrown = 0]
    ELSE h

Clean(c) == ~hist[c].mutated /\ ~hist[c].reconf

Paced(c) ==
    \/ hist[c].lastReqEnd = -1
    \/ (clock - hist[c].lastReqEnd) * rate[c].elems[1] >= rate[c].elems[2]

Rested(c) ==
    /\ hist[c].lastCallEnd # -1
    /\ clock - hist[c].lastCallEnd >= rate[c].elems[2]

Idle == [op |-> "none"]

----------------------------------------------------------------------------
(* Construction: HaloPy(api_key, rate=r) for every client, r in R, at clock 0 *)

InitWith(C, T, R) ==
    /\ clock = 0
    /\ rate \in [C -> R]
    /\ allowance = [c \in C |-> rate[c].elems[1] * One]
    /\ last_check = [c \in C |-> clock]
    /\ defaults = [e \in Entries |-> NoKey]
    /\ pc = [t \in T |-> "idle"]
    /\ call = [t \in T |-> Idle]
    /\ hist = [c \in C |-> NoHist]

Init == InitWith({1}, {1}, ValidPairs)

----------------------------------------------------------------------------
(* Operations *)

\* time passes: _now() returns the next second
Tick ==
    /\ clock < MaxTime
    /\ clock' = clock + 1
    /\ hist' = [c \in Clients |-> [hist[c] EXCEPT !.burst = 0]]
    /\ UNCHANGED <<rate, allowance, last_check, defaults, pc, call>>

\* can_request(), called by the user
CanRequest(t, c) ==
    /\ pc[t] = "idle"
    /\ last_check' = [last_check EXCEPT ![c] = clock]
    /\ IF Divides(rate[c])
       THEN LET a == Refill(allowance[c], rate[c], clock - last_check[c])
            IN  call' = [call EXCEPT ![t] =
                    [op |-> "can_request", c |-> c, gate |-> a,
                     paced |-> Clean(c) /\ hist[c].paced /\ Paced(c),
                     result |-> IF Admits(a) THEN "True" ELSE "False"]]
       ELSE call' = [call EXCEPT ![t] =
                    [op |-> "can_request", c |-> c, result |-> "raised"]]
    /\ hist' = [hist EXCEPT ![c] = Kept([@ EXCEPT !.lastCallEnd = clock])]
    /\ UNCHANGED <<clock, rate, allowance, defaults, pc>>

\* another thread is between line 156 and the end of request() on client c
Inside(t, c) ==
    \E u \in Threads \ {t} : pc[u] # "idle" /\ call[u].c = c

\* request(), line 156
ReqBegin(t, c, e, h) ==
    /\ pc[t] = "idle"
    /\ last_check' = [last_check EXCEPT ![c] = clock]
    /\ LET started == IF hist[c].started < 2 THEN hist[c].started + 1 ELSE 2
       IN
       IF Divides(rate[c])
       THEN LET a == Refill(allowance[c], rate[c], clock - last_check[c])
            IN  /\ allowance' = [allowance EXCEPT ![c] = a]
                /\ pc' = [pc EXCEPT ![t] = "gate"]
                /\ call' = [call EXCEPT ![t] =
                       [op |-> "request", c |-> c, entry |-> e, headers |-> h,
                        first |-> hist[c].started = 0, clean |-> Clean(c),
                        paced |-> Clean(c) /\ hist[c].paced /\ Paced(c),
                        rested |-> Clean(c) /\ Rested(c),
                        refill |-> a, result |-> "running"]]
                /\ hist' = [hist EXCEPT ![c] = Kept([@ EXCEPT
                       !.started = started, !.paced = @ /\ Paced(c),
                       !.overlap = @ \/ Inside(t, c)])]
       ELSE /\ call' = [call EXCEPT ![t] =
                       [op |-> "request", c |-> c, entry |-> e, headers |-> h,
                        sent |-> FALSE, result |-> "raised"]]
            /\ hist' = [hist EXCEPT ![c] = Kept([@ EXCEPT
                       !.started = started,
                       !.lastCallEnd = clock, !.lastReqEnd = clock])]
            /\ UNCHANGED <<allowance, pc>>
    /\ UNCHANGED <<clock, rate, defaults>>

\* request(), lines 157-166
ReqGate(t) ==
    /\ pc[t] = "gate"
    /\ LET c == call[t].c
           ended == [hist EXCEPT ![c] = Kept([@ EXCEPT
                       !.lastCallEnd = clock, !.lastReqEnd = clock])]
       IN
       /\ last_check' = [last_check EXCEPT ![c] = clock]
       /\ IF ~Divides(rate[c])
          THEN /\ call' = [call EXCEPT ![t] = [op |-> "request", c |-> c,
                      entry |-> @.entry, headers |-> @.headers,
                      sent |-> FALSE, result |-> "raised"]]
               /\ pc' = [pc EXCEPT ![t] = "idle"]
               /\ hist' = ended
               /\ UNCHANGED defaults
          ELSE
          LET a == Refill(allowance[c], rate[c], clock - last_check[c])
              now == [gate |-> a,
                      full |-> Clean(c) /\ hist[c].burst >= rate[c].elems[1]]
          IN  IF Admits(a)
              THEN /\ call' = [call EXCEPT ![t] = @ @@ now @@
                          [key |-> HeaderSent(c, @.entry, @.headers)]]
                   /\ defaults' = DefaultsAfter(c, call[t].entry, call[t].headers)
                   /\ pc' = [pc EXCEPT ![t] = "send"]
                   /\ UNCHANGED hist
              ELSE /\ call' = [call EXCEPT ![t] =
                          [result |-> Err429, sent |-> FALSE] @@ now @@ @]
                   /\ pc' = [pc EXCEPT ![t] = "idle"]
                   /\ hist' = ended
                   /\ UNCHANGED defaults
    /\ UNCHANGED <<clock, rate, allowance>>

\* request(), lines 175-189, once requests.get has answered with resp:
\* a is stored in _allowance (the value it had when resp was from the cache
\* or requests.get raised) and the status code decides the result
Finish(t, resp, a) ==
    LET c == call[t].c
        counted == ~resp.failed /\ ~resp.from_cache /\ last_check[c] = clock
    IN
    /\ allowance' = [allowance EXCEPT ![c] = a]
    /\ call' = [call EXCEPT ![t] =
           [result |-> IF resp.failed THEN "transport error"
                       ELSE Classify(resp.status_code),
            sent |-> TRUE, resp |-> resp] @@ @]
    /\ hist' = [hist EXCEPT ![c] = Kept([@ EXCEPT
           !.lastCallEnd = clock, !.lastReqEnd = clock,
           !.burst = IF counted THEN @ + 1 ELSE @,
           !.issued = IF ~resp.failed /\ ~resp.from_cache THEN @ + 1 ELSE @,
           !.thrown = IF resp.failed THEN 1 ELSE @])]
    /\ pc' = [pc EXCEPT ![t] = "idle"]
    /\ UNCHANGED <<clock, rate, last_check, defaults>>

\* request(), lines 168-189: requests.get answers with resp; no other thread
\* runs between the read and the write of _allowance in line 175
ReqSend(t, resp) ==
    /\ pc[t] = "send"
    /\ Finish(t, resp, AfterGet(allowance[call[t].c], resp))

\* request(), lines 168-175: requests.get answers with a resp that passes
\* the test of lines 173-174 and line 175 reads _allowance
\* (self._allowance -= 1.0 is a read, a subtraction and a write; another
\* thread may run in between)
ReqLoad(t, resp) ==
    /\ pc[t] = "send"
    /\ ~resp.failed /\ ~resp.from_cache
    /\ call' = [call EXCEPT ![t] =
           [resp |-> resp, loaded |-> allowance[call[t].c]] @@ @]
    /\ pc' = [pc EXCEPT ![t] = "store"]
    /\ UNCHANGED <<clock, rate, allowance, last_check, defaults, hist>>

\* request(), lines 175-189: line 175 writes _allowance from the value read
ReqStore(t) ==
    /\ pc[t] = "store"
    /\ Finish(t, call[t].resp, AfterGet(call[t].loaded, call[t].resp))

Config(c) ==
    [rate |-> rate[c], allowance |-> allowance[c], last_check |-> last_check[c]]

\* the rate setter, lines 97-101
SetRate(t, c, value) ==
    /\ pc[t] = "idle"
    /\ IF value.kind # "tuple"
       THEN /\ call' = [call EXCEPT ![t] = [op |-> "rate", c |-> c,
                   value |-> value, before |-> Config(c),
                   result |-> "ValueError"]]
            /\ UNCHANGED <<rate, hist>>
       ELSE /\ rate' = [rate EXCEPT ![c] = value]
            /\ call' = [call EXCEPT ![t] = [op |-> "rate", c |-> c,
                   value |-> value, before |-> Config(c),
                   result |-> "returned"]]
            /\ hist' = [hist EXCEPT ![c] = Kept([@ EXCEPT !.reconf = TRUE])]
    /\ UNCHANGED <<clock, allowance, last_check, defaults, pc>>

\* the user assigns _allowance (tests/test_api.py, lines 149 and 166)
SetAllowance(t, c, a) ==
    /\ pc[t] = "idle"
    /\ allowance' = [allowance EXCEPT ![c] = a]
    /\ call' = [call EXCEPT ![t] = [op |-> "_allowance", c |-> c]]
    /\ hist' = [hist EXCEPT ![c] = Kept([@ EXCEPT !.mutated = TRUE])]
    /\ UNCHANGED <<clock, rate, last_check, defaults, pc>>

Assigned == {0, -One}

----------------------------------------------------------------------------
(* One client, one thread: every operation of the limiter, request() called *)
(* directly with its own headers or with none                               *)

Next ==
    \/ Tick
    \/ \E t \in Threads, c \in Clients : CanRequest(t, c)
    \/ \E t \in Threads, c \in Clients, h \in {"default", "own"} :
           ReqBegin(t, c, "request", h)
    \/ \E t \in Threads : ReqGate(t)
    \/ \E t \in Threads, resp \in Responses : ReqSend(t, resp)
    \/ \E t \in Threads, c \in Clients, value \in RateValues :
           SetRate(t, c, value)
    \/ \E t \in Threads, c \in Clients, a \in Assigned : SetAllowance(t, c, a)

Spec == Init /\ [][Next]_vars

----------------------------------------------------------------------------
(* Two clients with different API keys in one process, one thread: requests *)
(* through every entry point, with and without a headers argument. The      *)
(* clock plays no part in the headers: every call is made in the second of  *)
(* construction, where answers from the cache allow any number of calls.    *)

InitHdr == InitWith({1, 2}, {1}, {Pair(1, 1)})

Answers == {r \in Responses : r.failed \/ r.status_code = 200}

NextHdr ==
    \/ \E t \in Threads, c \in Clients, e \in Entries, h \in HeaderArgs :
           ReqBegin(t, c, e, h)
    \/ \E t \in Threads : ReqGate(t)
    \/ \E t \in Threads, resp \in Answers : ReqSend(t, resp)

SpecHdr == InitHdr /\ [][NextHdr]_vars

----------------------------------------------------------------------------
(* Two threads share one client and call request() and can_request() with  *)
(* no lock; the clock stands still, so only the interleaving acts          *)

InitMT == InitWith({1}, {1, 2}, ValidPairs)

NextMT ==
    \/ \E t \in Threads, c \in Clients : CanRequest(t, c)
    \/ \E t \in Threads, c \in Clients : ReqBegin(t, c, "request", "own")
    \/ \E t \in Threads : ReqGate(t)
    \/ \E t \in Threads, resp \in Answers : ReqLoad(t, resp)
    \/ \E t \in Threads, resp \in Answers :
          (resp.failed \/ resp.from_cache) /\ ReqSend(t, resp)
    \/ \E t \in Threads : ReqStore(t)

SpecMT == InitMT /\ [][NextMT]_vars

----------------------------------------------------------------------------
(* HaloPyResult: attribute access on a wrapped dictionary.                  *)
(* A wrapped dictionary is [top, result, nested]: top is the set of its     *)
(* keys other than 'Result'; result tells whether it has no 'Result' entry, *)
(* a dictionary there, or None; nested is the set of keys of that           *)
(* dictionary. What a lookup yields is named by the place it was taken from.*)

Keys == {"foo", "team", "_wrap"}
Names == Keys \cup {"bar", "Result", "__init__"}

Wraps ==
    {w \in [top : SUBSET Keys, result : {"absent", "dict", "None"},
            nested : SUBSET Keys] : w.result # "dict" => w.nested = {}}

TopKeys(w) == w.top \cup (IF w.result = "absent" THEN {} ELSE {"Result"})

Item(level, name) == [kind |-> "item", level |-> level, name |-> name]
Attribute(name) == [kind |-> "attribute", level |-> "object", name |-> name]
Raised(error) == [kind |-> "raised", level |-> "none", name |-> error]

\* what the object holds itself: _wrap (line 29), the methods of the class
OwnAttributes == {"_wrap", "__init__"}

\* HaloPyResult.__getattr__, lines 31-37; name in None is a TypeError
GetAttrHook(w, name) ==
    IF name \in TopKeys(w) THEN Item("top", name)
    ELSE IF w.result = "None" THEN Raised("TypeError")
    ELSE IF w.result = "dict" /\ name \in w.nested THEN Item("nested", name)
    ELSE Raised("AttributeError")

\* HaloPyResult(w).name: Python calls __getattr__ only for a name that the
\* object and its class do not hold
Lookup(w, name) ==
    IF name \in OwnAttributes THEN Attribute(name) ELSE GetAttrHook(w, name)

GetAttr(t, w, name) ==
    /\ pc[t] = "idle"
    /\ call' = [call EXCEPT ![t] = [op |-> "getattr", wrap |-> w,
            name |-> name, result |-> Lookup(w, name)]]
    /\ UNCHANGED <<clock, rate, allowance, last_check, defaults, pc, hist>>

InitResult == InitWith({1}, {1}, {Pair(1, 1)})

NextResult == \E t \in Threads, w \in Wraps, name \in Names : GetAttr(t, w, name)

SpecResult == InitResult /\ [][NextResult]_vars

----------------------------------------------------------------------------
(* Properties. Each reads the call a thread made last.                      *)

\* request() came back, and _pre_request did not raise
Returned(t) ==
    pc[t] = "idle" /\ call[t].op = "request" /\ call[t].result # "raised"

\* the gate turned the request down
Denied(t) == Returned(t) /\ ~call[t].sent

\* the transport gave a response
Answered(t) == Returned(t) /\ call[t].sent /\ ~call[t].resp.failed

\* C1: request() calls the transport only if the token count that the gate
\* computed is at least 1.0; a request the gate turns down raises Rate limit
\* exceeded, calls the transport zero times and leaves _allowance at the
\* refilled value, with nothing subtracted.
C1_GateGuardsTransport ==
    \A t \in Threads :
        /\ pc[t] = "send" => call[t].gate >= One
        /\ Returned(t) =>
               /\ call[t].sent => call[t].gate >= One
               /\ call[t].gate < One =>
                      /\ call[t].result = Err429
                      /\ ~call[t].sent
                      /\ allowance[call[t].c] = call[t].refill

\* C1 witness: _allowance was assigned 0 from outside and the next request()
\* was turned down
C1_Witness ==
    \E t \in Threads :
        /\ Denied(t)
        /\ hist[call[t].c].mutated
        /\ call[t].gate = 0
        /\ call[t].result = Err429

\* C2 (as claimed): between calls, 0 <= _allowance <= rate[0], whatever
\* calls and rate assignments came before (no assignment to _allowance).
C2_AllowanceInBounds ==
    \A c \in Clients :
        ((\A t \in Threads : pc[t] = "idle")
            /\ ~hist[c].mutated /\ Divides(rate[c]))
        => (0 <= allowance[c] /\ allowance[c] <= Cap(rate[c]))

\* C3: a request() answered from the cache leaves _allowance at the value
\* refilled at the start of the call, whatever the status code.
C3_CacheHitIsFree ==
    \A t \in Threads :
        (Answered(t) /\ call[t].resp.from_cache)
        => allowance[call[t].c] = call[t].refill

\* C3 witness: a cached 404 came back and the bucket kept its tokens
C3_Witness ==
    \E t \in Threads :
        /\ Answered(t)
        /\ call[t].resp.from_cache
        /\ call[t].resp.status_code = 404
        /\ call[t].refill >= One
        /\ allowance[call[t].c] = call[t].refill

C5_PacedNeverThrottled ==
    \A t \in Threads :
        /\ (Returned(t) /\ call[t].paced) => call[t].sent
        /\ (call[t].op = "can_request" /\ call[t].result # "raised"
               /\ call[t].paced)
           => call[t].result = "True"

\* C6 (as claimed): with a fixed rate and no assignment to _allowance, a
\* request() is turned down once capacity responses not from the cache were
\* received by requests admitted in this clock second, and a request() begun
\* at least period seconds after the last call ended is admitted.
C6_BurstThenRecover ==
    \A t \in Threads :
        Returned(t) =>
            /\ call[t].full => ~call[t].sent
            /\ call[t].rested => call[t].sent

\* C7 (as claimed): assigning to rate a value that is not a pair of two
\* numbers raises, and rate, _allowance and _last_check stay as they were.
C7_RejectsNonPairs ==
    \A t \in Threads :
        (call[t].op = "rate" /\ ~IsPair(call[t].value))
        => /\ call[t].result = "ValueError"
           /\ Config(call[t].c) = call[t].before

\* C8 (as claimed): 400, 401, 404, 429 and 500 raise their own error, every
\* other status outside 2xx raises the generic HTTP error, 2xx returns.
C8_StatusTableAsClaimed ==
    \A t \in Threads :
        Answered(t) =>
            LET code == call[t].resp.status_code
            IN  call[t].result =
                    CASE code = 400 -> "Bad request"
                      [] code = 401 -> "Unauthorized"
                      [] code = 404 -> "Endpoint not found"
                      [] code = 429 -> "Rate limit exceeded"
                      [] code = 500 -> "Internal server error"
                      [] OTHER -> IF 200 <= code /\ code < 300
                                  THEN "returned" ELSE "HTTPError"

\* C8 (amended): 400, 401, 404, 429 and 500 raise their own error, every
\* other status from 400 to 599 raises the generic HTTP error, and every
\* other status (1xx, 2xx, 3xx) returns the response with no error.
C8_StatusTable ==
    \A t \in Threads :
        Answered(t) =>
            LET code == call[t].resp.status_code
            IN  call[t].result =
                    CASE code = 400 -> "Bad request"
                      [] code = 401 -> "Unauthorized"
                      [] code = 404 -> "Endpoint not found"
                      [] code = 429 -> "Rate limit exceeded"
                      [] code = 500 -> "Internal server error"
                      [] OTHER -> IF 400 <= code /\ code < 600
                                  THEN "HTTPError" ELSE "returned"

\* C8 witness: a 301 came back and request() returned it
C8_Witness ==
    \E t \in Threads :
        /\ Answered(t)
        /\ call[t].resp.status_code = 301
        /\ call[t].result = "returned"

\* C9 (as claimed): the key header of every transport call is the caller's
\* when the caller passed one, and else the api_key of the client that makes
\* the call, whatever this or another client did before.
C9_KeyHeaderIsOwn ==
    \A t \in Threads :
        (pc[t] = "send" \/ (Returned(t) /\ call[t].sent))
        => call[t].key = IF call[t].headers = "own" THEN CallerKey
                         ELSE ApiKey(call[t].c)

\* C10 (as claimed): with a fixed rate and no assignment to _allowance,
\* can_request() stores the refilled count (elapsed * capacity / period more,
\* at most the capacity) in _allowance and is True exactly when the stored
\* count is at least 1.0.
C10_PollRefillsBucket ==
    \A t \in Threads :
        (call[t].op = "can_request" /\ call[t].result # "raised"
            /\ Clean(call[t].c))
        => /\ allowance[call[t].c] = call[t].gate
           /\ call[t].result = "True" <=> allowance[call[t].c] >= One

\* C11 (as claimed): HaloPyResult(d).n is d[n] when n is a key of d, else
\* d['Result'][n] when d has a 'Result' entry that holds n, else an error;
\* for every d and every n.
C11_LookupTopThenResult ==
    \A t \in Threads :
        call[t].op = "getattr" =>
            LET w == call[t].wrap
                n == call[t].name
            IN  IF n \in TopKeys(w)
                THEN call[t].result = Item("top", n)
                ELSE IF w.result = "dict" /\ n \in w.nested
                THEN call[t].result = Item("nested", n)
                ELSE call[t].result.kind = "raised"

\* C12: when request() was admitted and requests.get raises,
\* _allowance is 1.0 lower all the same; a request the gate turns down
\* subtracts nothing.
C12_ThrowStillConsumes ==
    \A t \in Threads :
        /\ (Returned(t) /\ call[t].sent /\ call[t].resp.failed)
           => allowance[call[t].c] = call[t].refill - One
        /\ Denied(t) => allowance[call[t].c] = call[t].refill

\* C13: every admitted request() answered by the server (not from the
\* cache) leaves _allowance exactly 1.0 below the refilled value, also when
\* the status code makes request() raise: the token is taken before the
\* status code is looked at.
C13_ConsumeBeforeClassify ==
    \A t \in Threads :
        (Answered(t) /\ ~call[t].resp.from_cache)
        => /\ allowance[call[t].c] = call[t].refill - One
           /\ call[t].result = Classify(call[t].resp.status_code)

\* C13 witness: a 500 from the server: request() raised and the token is gone
C13_Witness ==
    \E t \in Threads :
        /\ Answered(t) /\ ~call[t].resp.from_cache
        /\ call[t].resp.status_code = 500
        /\ call[t].result = Err500
        /\ allowance[call[t].c] = call[t].refill - One

\* C14: after the user assigned a negative _allowance, the next
\* can_request() or request() does not raise and refills from zero, not from
\* the negative value (the gate of can_request() and the value request()
\* stores are the refill of 0.0); until that call the value stays as assigned.
C14_ClampsAtNextRefill ==
    [][\A t \in Threads, c \in Clients :
        ( /\ call[t].op = "_allowance" /\ call[t].c = c
          /\ ~hist[c].reconf
          /\ allowance[c] < 0 )
        => LET clamped == Refill(0, rate[c], clock - last_check[c])
           IN  /\ Tick => allowance'[c] = allowance[c]
               /\ CanRequest(t, c)
                  => /\ call'[t].result \in {"True", "False"}
                     /\ call'[t].gate = clamped
               /\ (\E e \in Entries, h \in HeaderArgs : ReqBegin(t, c, e, h))
                  => /\ call'[t].result = "running"
                     /\ allowance'[c] = clamped
    ]_vars

\* C16: with a fixed rate (capacity, period), one thread and no assignment to
\* _allowance, the requests.get calls that were not answered from the cache
\* (those that raised included) made up to clock second T number at most
\* capacity + T * capacity / period.
C16_TokenBucketBound ==
    \A c \in Clients :
        Clean(c)
        => (hist[c].issued + hist[c].thrown) * rate[c].elems[2]
           <= rate[c].elems[1] * rate[c].elems[2] + clock * rate[c].elems[1]

\* C15: two threads on one client with no lock and the clock standing still.
\* A thread past the gate was admitted on a count of at least 1.0;
\* _allowance goes below zero only when two request() calls overlapped, and
\* then by one token at most.
C15_RaceOverdraws ==
    \A c \in Clients :
        /\ allowance[c] < 0 => hist[c].overlap
        /\ allowance[c] >= -One
        /\ \A t \in Threads :
              (pc[t] \in {"send", "store"} /\ call[t].c = c)
              => Admits(call[t].gate)

\* C15 witness: both threads were admitted while fewer than two tokens were
\* there, both got a response not from the cache, and _allowance is negative
C15_Witness ==
    \E c \in Clients :
        /\ hist[c].overlap
        /\ allowance[c] < 0
        /\ \A t \in Threads :
              /\ Answered(t) /\ call[t].c = c
              /\ ~call[t].resp.from_cache
              /\ call[t].gate >= One /\ call[t].gate < 2 * One

====
